---- MODULE Spec2Model ----
(***************************************************************************)
(* Model of macroslib/src/java_jni/fenum.rs: generation of the Java enum   *)
(* source, of the Rust SwigForeignCLikeEnum glue and of the callback       *)
(* conversion for a foreign_enum, the registrations generate_enum makes    *)
(* in the conversion map, and the behaviour of the emitted code.           *)
(*                                                                         *)
(* An enumeration (ForeignEnumInfo) is a record [name, items, len]: len is *)
(* fenum.items.len(); items holds the rows.  An enumeration too large to   *)
(* be written out row by row (len = I32_MAX) is represented by its length  *)
(* and its leading rows.  Rows are numbered from 1 here, so row k has the  *)
(* source's index i = k - 1.  Documentation comments are rendered by a    *)
(* collaborator and carry no ordinal or identifier; they are left out of   *)
(* the rendered parts.                                                     *)
(***************************************************************************)
EXTENDS Integers, Sequences, FiniteSets, TLC

VARIABLES ctx, pre, fenum, result, effects, calls, rt

vars == <<ctx, pre, fenum, result, effects, calls, rt>>

\* ------------------------------------------------------------ bounds
MaxItems == 2
MaxCalls == 1

\* ------------------------------------------------------------ constants
I32_MAX == 2147483647
C_LIKE_ENUM_TRAIT == "SwigForeignCLikeEnum"

\* ------------------------------------------------------------ inputs
\* Rows an enumeration is built from: foreign identifier and native
\* identifier.  Neither is checked for uniqueness by this module.
ItemSet ==
  { [name |-> "A", rust_name |-> "X"],
    [name |-> "B", rust_name |-> "X"],
    [name |-> "B", rust_name |-> "Y"] }

SeqsUpTo(S, n) == UNION { [1..k -> S] : k \in 0..n }

SmallEnums ==
  { [name |-> "Color", items |-> s, len |-> Len(s)] : s \in SeqsUpTo(ItemSet, MaxItems) }

HugeEnums ==
  { [name |-> "Color", items |-> <<[name |-> "A", rust_name |-> "X"]>>, len |-> I32_MAX] }

Enums == SmallEnums \cup HugeEnums

NoEnum == [name |-> "", items |-> <<>>, len |-> 0]

\* ------------------------------------------------------------ text helpers
\* format!("{}", i) of an unsigned index: its decimal digits.
RECURSIVE Digits(_)
Digits(i) == IF i < 10 THEN <<i>> ELSE Digits(i \div 10) \o <<i % 10>>

\* The value a target-language compiler reads back from a decimal literal.
RECURSIVE ParseInt(_)
ParseInt(d) ==
  IF Len(d) = 0 THEN 0
  ELSE 10 * ParseInt(SubSeq(d, 1, Len(d) - 1)) + d[Len(d)]

\* `i as i32`: the low 32 bits of i read as a signed value.
AsI32(i) == IF i <= I32_MAX THEN i ELSE ((i - I32_MAX) - 1) - I32_MAX - 1

Ok == [kind |-> "Ok", msg |-> ""]
Err(m) == [kind |-> "Err", msg |-> m]
Panic(m) == [kind |-> "Panic", msg |-> m]

\* ------------------------------------------------------------ generate_java_code_for_enum
\* Variant of Separator: the terminator is put after index len, not len - 1.
SeparatorAtLen(i, len) ==
  IF len = 0 THEN "overflow"
  ELSE IF i = len THEN ";" ELSE ","

\* separator = if i == fenum.items.len() - 1 { ';' } else { ',' }, with
\* the subtraction done on usize: it faults when len is 0.
Separator(i, len) ==
  IF len = 0 THEN "overflow"
  ELSE IF i = len - 1 THEN ";" ELSE ","

JavaConstants(fe) ==
  [k \in 1..Len(fe.items) |->
     [item_name |-> fe.items[k].name,
      index     |-> Digits(k - 1),
      separator |-> Separator(k - 1, fe.len)]]

\* Variant of JavaCases: the case labels count from 1.
JavaCasesFromOne(fe) ==
  [k \in 1..Len(fe.items) |->
     [index |-> Digits(k), item_name |-> fe.items[k].name]]

JavaCases(fe) ==
  [k \in 1..Len(fe.items) |->
     [index |-> Digits(k - 1), item_name |-> fe.items[k].name]]

\* The text handed to FileWriteCache, by its parts.
JavaSource(package_name, fe) ==
  [package     |-> package_name,
   enum_name   |-> fe.name,
   constants   |-> JavaConstants(fe),
   value_field |-> "value",
   cases       |-> JavaCases(fe),
   default     |-> [throw |-> "Invalid value for enum", enum_name |-> fe.name]]

\* Variant of JavaFault: len - 1 is computed once, before the loop.
JavaFaultHoisted(fe) == fe.len = 0

\* An arithmetic fault while rendering: some evaluated separator overflowed.
JavaFault(fe) ==
  \E k \in 1..Len(fe.items) : Separator(k - 1, fe.len) = "overflow"

JavaPath(output_dir, fe) == <<output_dir, fe.name, ".java">>


\* FileWriteCache::update_file_if_necessary: the file at path holds the
\* new content afterwards (an identical file is left untouched).
UpdateFile(files, path, content) ==
  { f \in files : f.path # path } \cup { [path |-> path, content |-> content] }

\* Result and files after generate_java_code_for_enum; write_ok is the
\* outcome of the write collaborator.
generate_java_code_for_enum(files, output_dir, package_name, fe, write_ok) ==
  IF JavaFault(fe)
    THEN [files |-> files, result |-> Panic("attempt to subtract with overflow")]
  ELSE IF ~write_ok
    THEN [files |-> files, result |-> Err("write failed")]
  ELSE [files  |-> UpdateFile(files, JavaPath(output_dir, fe), JavaSource(package_name, fe)),
        result |-> Ok]

\* ------------------------------------------------------------ generate_rust_code_for_enum
\* assert!((fenum.items.len() as u64) <= u64::from(i32::max_value() as u32))
GlueAssert(fe) == fe.len <= I32_MAX

ArmsToJint(fe) ==
  [k \in 1..Len(fe.items) |-> [pat |-> fe.items[k].rust_name, idx |-> AsI32(k - 1)]]

\* Variant of ArmsFromJint: the ordinals count from 1.
ArmsFromJintFromOne(fe) ==
  [k \in 1..Len(fe.items) |-> [idx |-> AsI32(k), item |-> fe.items[k].rust_name]]

ArmsFromJint(fe) ==
  [k \in 1..Len(fe.items) |-> [idx |-> AsI32(k - 1), item |-> fe.items[k].rust_name]]

\* The impl SwigForeignCLikeEnum fragment pushed to ctx.rust_code.
RustGlue(fe) ==
  [kind           |-> "impl_c_like_enum",
   trait_name     |-> C_LIKE_ENUM_TRAIT,
   enum_name      |-> fe.name,
   arms_to_jint   |-> ArmsToJint(fe),
   arms_from_jint |-> ArmsFromJint(fe),
   fallback       |-> [panic |-> "not expected for", enum_name |-> fe.name]]

generate_rust_code_for_enum(rust_code, fe) ==
  IF ~GlueAssert(fe)
    THEN [rust_code |-> rust_code, result |-> Panic("assertion failed")]
    ELSE [rust_code |-> Append(rust_code, RustGlue(fe)), result |-> Ok]

\* ------------------------------------------------------------ add_conversation_from_enum_to_jobject_for_callbacks
\* java_class_name_to_jni(java_class_full_name(package, name))
EnumClassName(package_name, fe) == <<package_name, "/", fe.name>>

\* Variant of ArmsMatchFieldsNames: the field is named after the native
\* identifier.
ArmsMatchNativeNames(fe) ==
  [k \in 1..Len(fe.items) |-> [pat |-> fe.items[k].rust_name, field |-> fe.items[k].rust_name]]

ArmsMatchFieldsNames(fe) ==
  [k \in 1..Len(fe.items) |-> [pat |-> fe.items[k].rust_name, field |-> fe.items[k].name]]

\* The impl SwigFrom<Enum> for jobject fragment.
CallbackCode(package_name, fe) ==
  [kind       |-> "impl_swig_from",
   enum_type  |-> fe.name,
   class_name |-> EnumClassName(package_name, fe),
   arms       |-> ArmsMatchFieldsNames(fe)]

\* find_or_alloc of a type node: an existing node of that name is kept
\* and gains the traits, otherwise the node is added.
FindOrAlloc(rust_types, name, traits) ==
  LET old == { t \in rust_types : t.name = name }
      impls == traits \cup UNION { t.implements : t \in old }
  IN (rust_types \ old) \cup { [name |-> name, implements |-> impls] }

CallbackEdge(fe) ==
  [from |-> fe.name, to |-> "jobject",
   code |-> "let mut {to_var}: jobject = <jobject>::swig_from({from_var}, env);"]

add_conversation_from_enum_to_jobject_for_callbacks(c, package_name, fe) ==
  [c EXCEPT
     !.rust_code  = Append(@, CallbackCode(package_name, fe)),
     !.rust_types = FindOrAlloc(@, "jobject", {}),
     !.conv_edges = @ \cup { CallbackEdge(fe) }]


\* ------------------------------------------------------------ generate_enum
OutputDir == "out"
PackageName == "com.example"

\* if (fenum.items.len() as u64) >= (i32::max_value() as u64)
CardinalityGuard(fe) == fe.len >= I32_MAX

\* The ForeignTypeS handed to alloc_foreign_type: both rules go between
\* the enum's native type and the jint intermediate.
EnumFtype(fe) ==
  [name |-> fe.name,
   into_from_rust |->
     [rust_ty |-> fe.name, intermediate_ty |-> "jint", input_to_output |-> FALSE,
      conv_code |-> <<fe.name, "{to_var} =", fe.name, ".fromInt({from_var});">>],
   from_into_rust |->
     [rust_ty |-> fe.name, intermediate_ty |-> "jint", input_to_output |-> FALSE,
      conv_code |-> <<"int {to_var} = {from_var}.getValue();">>]]

Outcome(c, r, e) == [ctx |-> c, result |-> r, effects |-> e]

\* The callback conversion as a step of generate_enum (line 87), with the
\* order of its three effects recorded in the log e.
CallbackStep(c, e, fe) ==
  Outcome(add_conversation_from_enum_to_jobject_for_callbacks(c, PackageName, fe),
          Ok,
          e \o << "callback_code", "object_type", "callback_edge" >>)

\* Variant of RegisterEnum: the enumeration is appended to the registry
\* before alloc_foreign_type is tried.
RegisterEnumRegistryFirst(c, e, fe, ftype_ok) ==
  LET c5 == [c EXCEPT !.exported_enums = Append(@, fe)]
  IN IF ~ftype_ok
       THEN Outcome(c5, Err("alloc_foreign_type failed"), Append(e, "exported_enum"))
       ELSE
         LET c6 == [c5 EXCEPT !.foreign_types = @ \cup { EnumFtype(fe) }]
         IN CallbackStep(c6, e \o << "exported_enum", "foreign_type" >>, fe)

\* Lines 84-89: alloc_foreign_type, register_exported_enum, the callback
\* conversion.  ftype_ok is the outcome of alloc_foreign_type.
RegisterEnum(c, e, fe, ftype_ok) ==
  IF ~ftype_ok
    THEN Outcome(c, Err("alloc_foreign_type failed"), e)
    ELSE
      LET c5 == [c EXCEPT !.foreign_types = @ \cup { EnumFtype(fe) }]
          c6 == [c5 EXCEPT !.exported_enums = Append(@, fe)]
      IN CallbackStep(c6, e \o << "foreign_type", "exported_enum" >>, fe)

\* Variant of EmitEnum: the native glue is pushed before the foreign
\* artifact is written.
EmitEnumGlueFirst(c, e, fe, write_ok, ftype_ok) ==
  LET rust == generate_rust_code_for_enum(c.rust_code, fe)
      c2   == [c EXCEPT !.rust_code = rust.rust_code]
      java == generate_java_code_for_enum(c2.files, OutputDir, PackageName, fe, write_ok)
  IN IF java.result.kind # "Ok"
       THEN Outcome(c2, java.result, Append(e, "native_glue"))
       ELSE
         LET c3 == [c2 EXCEPT !.files = java.files]
             c4 == [c3 EXCEPT !.rust_types = FindOrAlloc(@, "jint", {})]
         IN RegisterEnum(c4, e \o << "native_glue", "foreign_file", "intermediate_type" >>,
                         fe, ftype_ok)

\* Lines 46-50: the foreign artifact, the native glue, the jint node.
EmitEnum(c, e, fe, write_ok, ftype_ok) ==
  LET java == generate_java_code_for_enum(c.files, OutputDir, PackageName, fe, write_ok)
  IN IF java.result.kind # "Ok"
       THEN Outcome(c, java.result, e)
       ELSE
         LET c2   == [c EXCEPT !.files = java.files]
             rust == generate_rust_code_for_enum(c2.rust_code, fe)
         IN IF rust.result.kind # "Ok"
              THEN Outcome(c2, rust.result, Append(e, "foreign_file"))
              ELSE
                LET c3 == [c2 EXCEPT !.rust_code = rust.rust_code]
                    c4 == [c3 EXCEPT !.rust_types = FindOrAlloc(@, "jint", {})]
                IN RegisterEnum(c4, e \o << "foreign_file", "native_glue", "intermediate_type" >>,
                                fe, ftype_ok)

\* Lines 38-44: parse the type name, then find or allocate its node.
\* parse_ok is the outcome of parse_ty_with_given_span.
AfterGuard(c, fe, parse_ok, write_ok, ftype_ok) ==
  IF ~parse_ok
    THEN Outcome(c, Err("parse type failed"), << >>)
    ELSE
      LET c1 == [c EXCEPT !.rust_types = FindOrAlloc(@, fe.name, {C_LIKE_ENUM_TRAIT})]
      IN EmitEnum(c1, << "native_type" >>, fe, write_ok, ftype_ok)

\* Variant of generate_enum: the native type node is allocated before
\* the cardinality is checked.
generate_enum_GuardAfterAlloc(c, fe, parse_ok, write_ok, ftype_ok) ==
  IF CardinalityGuard(fe)
    THEN Outcome([c EXCEPT !.rust_types = FindOrAlloc(@, fe.name, {C_LIKE_ENUM_TRAIT})],
                 Err("Too many items in enum"), << >>)
    ELSE AfterGuard(c, fe, parse_ok, write_ok, ftype_ok)

generate_enum(c, fe, parse_ok, write_ok, ftype_ok) ==
  IF CardinalityGuard(fe)
    THEN Outcome(c, Err("Too many items in enum"), << >>)
    ELSE AfterGuard(c, fe, parse_ok, write_ok, ftype_ok)


\* ------------------------------------------------------------ the emitted code
\* A switch or a match takes the first arm that matches: the least of
\* the positions K of the matching arms, 0 when there is none.
FirstArm(K) ==
  IF K = {} THEN 0 ELSE CHOOSE k \in K : \A j \in K : k <= j

\* Java: fromInt(int x) of the emitted enum.
JavaFromInt(src, x) ==
  LET k == FirstArm({ j \in 1..Len(src.cases) : ParseInt(src.cases[j].index) = x })
  IN IF k # 0
       THEN [kind |-> "return", constant |-> src.cases[k].item_name]
       ELSE [kind |-> "throw", enum_name |-> src.default.enum_name, value |-> x]

\* Java: getValue() of the k-th declared constant, the argument its
\* declaration passes to the constructor.
JavaGetValue(src, k) == ParseInt(src.constants[k].index)

\* Rust: as_jint(&self) of the emitted impl, for variant v.
RustAsJint(glue, v) ==
  LET k == FirstArm({ j \in 1..Len(glue.arms_to_jint) : glue.arms_to_jint[j].pat = v })
  IN IF k # 0
       THEN [kind |-> "return", value |-> glue.arms_to_jint[k].idx]
       ELSE [kind |-> "no_arm", value |-> 0]

\* Rust: from_jint(x) of the emitted impl.
RustFromJint(glue, x) ==
  LET k == FirstArm({ j \in 1..Len(glue.arms_from_jint) : glue.arms_from_jint[j].idx = x })
  IN IF k # 0
       THEN [kind |-> "return", variant |-> glue.arms_from_jint[k].item]
       ELSE [kind |-> "panic", enum_name |-> glue.fallback.enum_name, value |-> x]

\* Rust: swig_from(x, env) of the emitted impl.  The three booleans are
\* what the JNI environment answers: whether FindClass, GetStaticFieldID
\* and GetStaticObjectField return a non-null value.  jni lists the JNI
\* functions called, in order.
NullHandle == [null |-> TRUE, class |-> << >>, field |-> ""]
Fault(m, jni) == [kind |-> "fault", msg |-> m, ret |-> NullHandle, jni |-> jni]

\* Variant of SwigFrom: the field identifier is not checked for null
\* before the field is read.
SwigFromUncheckedField(code, v, class_found, field_found, value_found) ==
  LET k == FirstArm({ j \in 1..Len(code.arms) : code.arms[j].pat = v })
      jni == << "FindClass", "GetStaticFieldID", "GetStaticObjectField" >>
  IN IF ~class_found
       THEN Fault("FindClass failed", << "FindClass" >>)
     ELSE IF k = 0
       THEN [kind |-> "no_arm", msg |-> "", ret |-> NullHandle, jni |-> << "FindClass" >>]
     ELSE IF field_found /\ value_found
       THEN [kind |-> "return", msg |-> "",
             ret |-> [null |-> FALSE, class |-> code.class_name, field |-> code.arms[k].field],
             jni |-> jni]
       ELSE Fault("Can get value of item", jni)

SwigFrom(code, v, class_found, field_found, value_found) ==
  LET k   == FirstArm({ j \in 1..Len(code.arms) : code.arms[j].pat = v })
      cls == IF class_found
               THEN [null |-> FALSE, class |-> code.class_name, field |-> ""]
               ELSE NullHandle
  IN IF cls.null
       THEN Fault("FindClass failed", << "FindClass" >>)
     ELSE IF k = 0
       THEN [kind |-> "no_arm", msg |-> "", ret |-> NullHandle, jni |-> << "FindClass" >>]
     ELSE
       LET static_field_id == code.arms[k].field
           item_id == IF field_found
                        THEN [null |-> FALSE, class |-> cls.class, field |-> static_field_id]
                        ELSE NullHandle
       IN IF item_id.null
            THEN Fault("Can not find item", << "FindClass", "GetStaticFieldID" >>)
            ELSE
              LET ret == IF value_found THEN item_id ELSE NullHandle
                  jni == << "FindClass", "GetStaticFieldID", "GetStaticObjectField" >>
              IN IF ret.null
                   THEN Fault("Can get value of item", jni)
                   ELSE [kind |-> "return", msg |-> "", ret |-> ret, jni |-> jni]

\* ------------------------------------------------------------ state machine
EmptyCtx ==
  [rust_types |-> {}, foreign_types |-> {}, conv_edges |-> {},
   exported_enums |-> << >>, rust_code |-> << >>, files |-> {}]

NoRt == [op |-> "none"]

Range(s) == { s[k] : k \in 1..Len(s) }

\* The artifacts the last call to generate_enum emitted.
LastJava ==
  (CHOOSE f \in ctx.files : f.path = JavaPath(OutputDir, fenum)).content

LastOfKind(kind) ==
  LET K == { k \in 1..Len(ctx.rust_code) : ctx.rust_code[k].kind = kind }
  IN ctx.rust_code[CHOOSE k \in K : \A j \in K : j <= k]

LastGlue == LastOfKind("impl_c_like_enum")
LastCallback == LastOfKind("impl_swig_from")

\* The native variants of the enumeration of the last call.
Variants(fe) == { fe.items[k].rust_name : k \in 1..Len(fe.items) }

\* Integers handed to the emitted decoders: every ordinal, one below and
\* one above.
IntInputs == (0 - 1)..MaxItems

\* The context generate_enum is first called with: nothing registered
\* yet, or the jint node already interned by an earlier conversion
\* (ty_to_rust_type finds the node or allocates it).
InitialCtxs ==
  { EmptyCtx,
    [EmptyCtx EXCEPT !.rust_types = { [name |-> "jint", implements |-> {}] }] }

Init ==
  /\ ctx \in InitialCtxs
  /\ pre = ctx
  /\ fenum = NoEnum
  /\ result = [kind |-> "none", msg |-> ""]
  /\ effects = << >>
  /\ calls = 0
  /\ rt = NoRt

\* Build time: one call of generate_enum on the shared context; pre keeps
\* the context as it was on entry.
GenerateEnum ==
  /\ calls < MaxCalls
  /\ rt = NoRt
  /\ \E fe \in Enums, parse_ok \in BOOLEAN, write_ok \in BOOLEAN, ftype_ok \in BOOLEAN :
       LET o == generate_enum(ctx, fe, parse_ok, write_ok, ftype_ok)
       IN /\ ctx' = o.ctx
          /\ result' = o.result
          /\ effects' = o.effects
          /\ fenum' = fe
  /\ pre' = ctx
  /\ calls' = calls + 1
  /\ UNCHANGED rt

\* Run time.  The emitted code keeps no state between calls, so each
\* behaviour makes one call of the emitted code, after the build.
\* The foreign side decodes an integer.
CallFromInt ==
  /\ rt = NoRt
  /\ "foreign_file" \in Range(effects)
  /\ \E x \in IntInputs :
       rt' = [op |-> "fromInt", arg |-> x, out |-> JavaFromInt(LastJava, x)]
  /\ UNCHANGED <<ctx, pre, fenum, result, effects, calls>>

\* Run time: the foreign side reads a constant's ordinal and decodes it.
CallGetValue ==
  /\ rt = NoRt
  /\ "foreign_file" \in Range(effects)
  /\ \E k \in 1..Len(LastJava.constants) :
       rt' = [op |-> "getValue", arg |-> k,
              out |-> [value |-> JavaGetValue(LastJava, k),
                       back  |-> JavaFromInt(LastJava, JavaGetValue(LastJava, k))]]
  /\ UNCHANGED <<ctx, pre, fenum, result, effects, calls>>

\* Run time: the native side encodes a variant and decodes the ordinal.
CallAsJint ==
  /\ rt = NoRt
  /\ "native_glue" \in Range(effects)
  /\ \E v \in Variants(fenum) :
       LET enc == RustAsJint(LastGlue, v)
       IN rt' = [op |-> "as_jint", arg |-> v,
                 out |-> [value |-> enc.value, kind |-> enc.kind,
                          back  |-> RustFromJint(LastGlue, enc.value)]]
  /\ UNCHANGED <<ctx, pre, fenum, result, effects, calls>>

\* Run time: the native side decodes an integer.
CallFromJint ==
  /\ rt = NoRt
  /\ "native_glue" \in Range(effects)
  /\ \E x \in IntInputs :
       rt' = [op |-> "from_jint", arg |-> x, out |-> RustFromJint(LastGlue, x)]
  /\ UNCHANGED <<ctx, pre, fenum, result, effects, calls>>

\* Run time: a callback argument is converted to a jobject.
CallSwigFrom ==
  /\ rt = NoRt
  /\ "callback_code" \in Range(effects)
  /\ \E v \in Variants(fenum), a \in BOOLEAN, b \in BOOLEAN, c \in BOOLEAN :
       rt' = [op |-> "swig_from", arg |-> v,
              env |-> [class_found |-> a, field_found |-> b, value_found |-> c],
              out |-> SwigFrom(LastCallback, v, a, b, c)]
  /\ UNCHANGED <<ctx, pre, fenum, result, effects, calls>>

Next ==
  \/ GenerateEnum
  \/ CallFromInt
  \/ CallGetValue
  \/ CallAsJint
  \/ CallFromJint
  \/ CallSwigFrom

Spec == Init /\ [][Next]_vars


\* ------------------------------------------------------------ properties
TooMany == Err("Too many items in enum")
ParseFailed == Err("parse type failed")
WriteFailed == Err("write failed")
FtypeFailed == Err("alloc_foreign_type failed")

Did(step) == step \in Range(effects)

\* The first row carrying the same native identifier as row k.
FirstRowOf(k) ==
  CHOOSE j \in 1..k :
    /\ fenum.items[j].rust_name = fenum.items[k].rust_name
    /\ \A h \in 1..(j - 1) : fenum.items[h].rust_name # fenum.items[k].rust_name

HasSharedVariant ==
  \E j, k \in 1..Len(fenum.items) : j < k /\ fenum.items[j].rust_name = fenum.items[k].rust_name

Returned(out, field, v) == out.kind = "return" /\ out[field] = v

\* C1: generate_enum fails with "Too many items in enum" if and only if
\* the item count N is at least 2^31 (that is, exceeds i32::MAX); an
\* enumeration of exactly 2^31 - 1 items passes the guard.
C1_RejectedIffAtLeastTwoPow31 ==
  calls > 0 => ((result = TooMany) <=> (fenum.len > I32_MAX))

\* C2: when generate_enum rejects an enumeration for cardinality, no file
\* has been written, no node, rule or edge has been added to the
\* conversion graph, no fragment appended to the native source buffer,
\* and the exported-enum registry has not grown.
C2_RejectionChangesNothing ==
  result = TooMany =>
    /\ ctx.files = pre.files
    /\ ctx.rust_types = pre.rust_types
    /\ ctx.foreign_types = pre.foreign_types
    /\ ctx.conv_edges = pre.conv_edges
    /\ ctx.rust_code = pre.rust_code
    /\ ctx.exported_enums = pre.exported_enums

C2_Rejected == result = TooMany /\ fenum.len >= I32_MAX /\ effects = << >>

\* C3: the foreign artifact of an accepted enumeration of N items lists
\* exactly N constants in declaration order, the i-th being the i-th
\* item's foreign identifier with ordinal i, each followed by ',' except
\* the last, which is followed by ';'.
C3_ConstantsInDeclarationOrder ==
  Did("foreign_file") =>
    LET src == LastJava
        N   == fenum.len
    IN /\ Len(src.constants) = N
       /\ \A k \in 1..N :
            /\ src.constants[k].item_name = fenum.items[k].name
            /\ ParseInt(src.constants[k].index) = k - 1
            /\ src.constants[k].separator = (IF k = N THEN ";" ELSE ",")

C3_TwoConstantsWritten ==
  Did("foreign_file") /\ fenum.len >= 2 /\ Len(LastJava.constants) >= 2

\* C4: fromInt inverts getValue: for every declared constant c,
\* fromInt(getValue(c)) is c, the ordinals declared are exactly 0..N-1,
\* and for an integer outside 0..N-1 fromInt throws an error carrying
\* that integer and the enumeration's name.
C4_FromIntInvertsGetValue ==
  Did("foreign_file") =>
    LET src == LastJava
        N   == Len(src.constants)
    IN /\ \A k \in 1..N :
            /\ JavaGetValue(src, k) = k - 1
            /\ Returned(JavaFromInt(src, JavaGetValue(src, k)), "constant",
                        src.constants[k].item_name)
       /\ \A x \in IntInputs \ (0..(N - 1)) :
            LET out == JavaFromInt(src, x)
            IN out.kind = "throw" /\ out.value = x /\ out.enum_name = fenum.name
       /\ rt.op = "getValue" =>
            Returned(rt.out.back, "constant", src.constants[rt.arg].item_name)
       /\ (rt.op = "fromInt" /\ rt.arg \notin 0..(N - 1)) =>
            (rt.out.kind = "throw" /\ rt.out.value = rt.arg /\ rt.out.enum_name = fenum.name)

C4_SecondConstantDecoded ==
  rt.op = "getValue" /\ rt.arg = 2 /\ rt.out.value = 1 /\ rt.out.back.kind = "return"

\* C5 as stated: as_jint maps the native variant of row i to ordinal i,
\* from_jint maps ordinal i to the native variant of row i, decoding an
\* encoded variant gives the variant back, every variant is decoded from
\* some ordinal in 0..N-1, and from_jint panics outside 0..N-1.
C5_EncodeGivesRowOrdinal ==
  Did("native_glue") =>
    LET g == LastGlue
        N == fenum.len
    IN \A k \in 1..N :
         /\ Returned(RustAsJint(g, fenum.items[k].rust_name), "value", k - 1)
         /\ Returned(RustFromJint(g, k - 1), "variant", fenum.items[k].rust_name)

\* C5 amended: as_jint maps the native variant of row i to the ordinal of
\* the first row carrying that native identifier (ordinal i when the
\* native identifiers are distinct); from_jint maps ordinal i to the
\* native variant of row i; decoding an encoded variant gives the variant
\* back; every variant is decoded from some ordinal in 0..N-1; from_jint
\* panics, reporting the value and the enumeration, outside 0..N-1.
C5_EncodeGivesFirstRowOrdinal ==
  Did("native_glue") =>
    LET g == LastGlue
        N == fenum.len
    IN /\ \A k \in 1..N :
            /\ Returned(RustAsJint(g, fenum.items[k].rust_name), "value", FirstRowOf(k) - 1)
            /\ Returned(RustFromJint(g, k - 1), "variant", fenum.items[k].rust_name)
       /\ \A v \in Variants(fenum) :
            /\ Returned(RustFromJint(g, RustAsJint(g, v).value), "variant", v)
            /\ \E i \in 0..(N - 1) : Returned(RustFromJint(g, i), "variant", v)
       /\ \A x \in IntInputs \ (0..(N - 1)) :
            LET out == RustFromJint(g, x)
            IN out.kind = "panic" /\ out.value = x /\ out.enum_name = fenum.name
       /\ rt.op = "as_jint" =>
            (rt.out.kind = "return" /\ Returned(rt.out.back, "variant", rt.arg))
       /\ (rt.op = "from_jint" /\ rt.arg \notin 0..(N - 1)) =>
            (rt.out.kind = "panic" /\ rt.out.value = rt.arg)

C5_SharedVariantEncoded ==
  rt.op = "as_jint" /\ HasSharedVariant /\ rt.out.back.kind = "return"
    /\ \E j, k \in 1..Len(fenum.items) :
         j < k /\ fenum.items[j].rust_name = rt.arg /\ fenum.items[k].rust_name = rt.arg


\* The name swig_from hands to GetStaticFieldID for variant v, seen in
\* the handle it returns when every lookup succeeds.
LookupName(code, v) == SwigFrom(code, v, TRUE, TRUE, TRUE).ret.field

\* C6 as stated: for every row i, the static-field name swig_from looks
\* up when given the native variant of row i is the foreign constant
\* name emitted for row i, and the variant it matches on is the native
\* identifier of the encode arm of row i.
C6_LookupNameIsRowConstant ==
  Did("callback_code") =>
    \A k \in 1..fenum.len :
      /\ LookupName(LastCallback, fenum.items[k].rust_name) = LastJava.constants[k].item_name
      /\ LastCallback.arms[k].pat = LastGlue.arms_to_jint[k].pat

\* C6 amended: the i-th arm of swig_from's match pairs the native
\* identifier of the encode arm of row i with the foreign constant name
\* emitted for row i, byte for byte; given the native variant of row i,
\* swig_from looks up the constant name of the first row carrying that
\* native identifier (row i itself when the native identifiers are
\* distinct).
C6_ArmNameIsRowConstant ==
  Did("callback_code") =>
    /\ Len(LastCallback.arms) = fenum.len
    /\ \A k \in 1..fenum.len :
         /\ LastCallback.arms[k].field = LastJava.constants[k].item_name
         /\ LastCallback.arms[k].pat = LastGlue.arms_to_jint[k].pat
         /\ LastCallback.arms[k].pat = fenum.items[k].rust_name
         /\ LookupName(LastCallback, fenum.items[k].rust_name)
              = LastJava.constants[FirstRowOf(k)].item_name
    /\ (rt.op = "swig_from" /\ rt.out.kind = "return") =>
         \E k \in 1..fenum.len :
           /\ fenum.items[k].rust_name = rt.arg
           /\ rt.out.ret.field = LastJava.constants[FirstRowOf(k)].item_name

C6_SharedVariantLookedUp ==
  /\ rt.op = "swig_from" /\ rt.out.kind = "return"
  /\ \E j, k \in 1..Len(fenum.items) :
       /\ j < k
       /\ fenum.items[j].rust_name = rt.arg /\ fenum.items[k].rust_name = rt.arg
       /\ fenum.items[j].name # fenum.items[k].name

\* C7: for an enumeration of no items generate_enum neither reports a
\* cardinality violation nor faults in the separator computation, and
\* succeeds unless a collaborator fails; the foreign artifact declares no
\* constant, fromInt throws for every integer, and the native type node,
\* the foreign type and the exported-enum entry are registered.
C7_EmptyEnumSucceeds ==
  (calls > 0 /\ fenum.len = 0) =>
    /\ result.kind \in { "Ok", "Err" }
    /\ result \in { Ok, ParseFailed, WriteFailed, FtypeFailed }
    /\ Did("foreign_file") =>
         /\ Len(LastJava.constants) = 0
         /\ \A x \in IntInputs :
              LET out == JavaFromInt(LastJava, x)
              IN out.kind = "throw" /\ out.value = x
    /\ result = Ok =>
         /\ Did("foreign_file")
         /\ \E t \in ctx.rust_types :
              t.name = fenum.name /\ C_LIKE_ENUM_TRAIT \in t.implements
         /\ \E f \in ctx.foreign_types : f.name = fenum.name
         /\ Len(ctx.exported_enums) = Len(pre.exported_enums) + 1
         /\ ctx.exported_enums[Len(ctx.exported_enums)] = fenum

C7_EmptyEnumDecoded ==
  /\ fenum.len = 0 /\ result = Ok
  /\ rt.op = "fromInt" /\ rt.arg = 0 /\ rt.out.kind = "throw"

\* The native type node of the enumeration is present and tagged, and
\* every other node is as it was before the call.
OnlyNativeTypeAdded ==
  /\ \E t \in ctx.rust_types :
       t.name = fenum.name /\ C_LIKE_ENUM_TRAIT \in t.implements
  /\ \A t \in ctx.rust_types : t.name # fenum.name => t \in pre.rust_types
  /\ \A t \in pre.rust_types : t.name # fenum.name => t \in ctx.rust_types

\* C8 as stated: a failure of the cardinality guard, of parsing the native
\* type or of the foreign artifact write leaves the conversion graph (no
\* native type node allocated, no foreign type, rule or edge), the native
\* source buffer and the exported-enum registry as they were.
C8_EarlyFailureChangesNothing ==
  result \in { TooMany, ParseFailed, WriteFailed } =>
    /\ ctx.rust_types = pre.rust_types
    /\ ctx.foreign_types = pre.foreign_types
    /\ ctx.conv_edges = pre.conv_edges
    /\ ctx.rust_code = pre.rust_code
    /\ ctx.exported_enums = pre.exported_enums

\* C8 amended: a failure of the cardinality guard or of parsing the native
\* type leaves everything as it was; when the foreign artifact write
\* fails, the native type node found or allocated just before it (tagged
\* with the capability) stays, and nothing else has changed: no foreign
\* type, rule or edge, no fragment, no registry entry, no file.
C8_WriteFailureKeepsOnlyTypeNode ==
  /\ result \in { TooMany, ParseFailed } => ctx = pre
  /\ result = WriteFailed =>
       /\ OnlyNativeTypeAdded
       /\ effects = << "native_type" >>
       /\ ctx.foreign_types = pre.foreign_types
       /\ ctx.conv_edges = pre.conv_edges
       /\ ctx.rust_code = pre.rust_code
       /\ ctx.exported_enums = pre.exported_enums
       /\ ctx.files = pre.files

C8_WriteFailed ==
  result = WriteFailed /\ ctx.rust_types # pre.rust_types

IsPrefix(s, t) == Len(s) <= Len(t) /\ s = SubSeq(t, 1, Len(s))

\* C9: generate_enum performs its effects in the order native type node,
\* foreign artifact, native glue, foreign type (both rules through jint),
\* registry append, callback fragment and edge; when alloc_foreign_type
\* fails the registry, the edges and the foreign types are as before and
\* only the glue fragment has been pushed, while the type node, the file
\* and the glue stay; a registry entry or callback fragment of this call
\* exists only if the foreign type was registered.
C9_EffectsInOrder ==
  /\ IsPrefix(effects,
       << "native_type", "foreign_file", "native_glue", "intermediate_type",
          "foreign_type", "exported_enum", "callback_code", "object_type",
          "callback_edge" >>)
  /\ result = FtypeFailed =>
       /\ ctx.exported_enums = pre.exported_enums
       /\ ctx.conv_edges = pre.conv_edges
       /\ ctx.foreign_types = pre.foreign_types
       /\ Len(ctx.rust_code) = Len(pre.rust_code) + 1
       /\ SubSeq(ctx.rust_code, 1, Len(pre.rust_code)) = pre.rust_code
       /\ ctx.rust_code[Len(ctx.rust_code)].kind = "impl_c_like_enum"
       /\ \E t \in ctx.rust_types :
            t.name = fenum.name /\ C_LIKE_ENUM_TRAIT \in t.implements
       /\ \E f \in ctx.files : f.path = JavaPath(OutputDir, fenum)
  /\ (\/ ctx.exported_enums # pre.exported_enums
      \/ ctx.conv_edges # pre.conv_edges
      \/ Len(ctx.rust_code) > Len(pre.rust_code) + 1) =>
       /\ result = Ok
       /\ \E f \in ctx.foreign_types :
            /\ f.name = fenum.name
            /\ f.into_from_rust.intermediate_ty = "jint"
            /\ f.from_into_rust.intermediate_ty = "jint"
            /\ f.into_from_rust.rust_ty = fenum.name
            /\ f.from_into_rust.rust_ty = fenum.name
       /\ ctx.exported_enums = Append(pre.exported_enums, fenum)
       /\ \E e \in ctx.conv_edges : e.from = fenum.name /\ e.to = "jobject"
       /\ ctx.rust_code[Len(ctx.rust_code)].kind = "impl_swig_from"

C9_ForeignTypeRefused ==
  /\ result = FtypeFailed
  /\ effects = << "native_type", "foreign_file", "native_glue", "intermediate_type" >>
  /\ Len(ctx.rust_code) = Len(pre.rust_code) + 1

JniOrder == << "FindClass", "GetStaticFieldID", "GetStaticObjectField" >>

\* C10: swig_from calls FindClass, GetStaticFieldID and
\* GetStaticObjectField in that order, faults at the first that answers
\* null without calling a later one, and returns only a non-null handle,
\* the value of the static field named after the foreign identifier of
\* the given native variant.
C10_FaultsAtFirstNull ==
  rt.op = "swig_from" =>
    LET out == rt.out
        e   == rt.env
    IN /\ IsPrefix(out.jni, JniOrder)
       /\ ~e.class_found =>
            (out.kind = "fault" /\ out.jni = SubSeq(JniOrder, 1, 1))
       /\ (e.class_found /\ ~e.field_found) =>
            (out.kind = "fault" /\ out.jni = SubSeq(JniOrder, 1, 2))
       /\ (e.class_found /\ e.field_found /\ ~e.value_found) =>
            (out.kind = "fault" /\ out.jni = JniOrder)
       /\ (e.class_found /\ e.field_found /\ e.value_found) =>
            (out.kind = "return" /\ out.jni = JniOrder)
       /\ out.kind = "return" =>
            /\ ~out.ret.null
            /\ out.ret.class = EnumClassName(PackageName, fenum)
            /\ \E k \in 1..Len(fenum.items) :
                 /\ fenum.items[k].rust_name = rt.arg
                 /\ out.ret.field = fenum.items[k].name
       /\ out.kind # "return" => out.ret.null

C10_FaultedAtFieldLookup ==
  /\ rt.op = "swig_from" /\ rt.out.kind = "fault"
  /\ rt.env.class_found /\ ~rt.env.field_found /\ rt.env.value_found
  /\ rt.out.jni = << "FindClass", "GetStaticFieldID" >>

====
